---------------------------- MODULE Spec2Model ----------------------------
(***************************************************************************)
(* Model of ds-s3's uploader package (internal/uploader/uploader.go):      *)
(* BuildPlans, Transport.Cleanup and Transport.Upload, run against a       *)
(* local filesystem and an S3-compatible bucket; of the plugin's upload    *)
(* command that chains them (Plugin.handleUpload); and of the resolution   *)
(* of the plugin settings (internal/config/config.go).                     *)
(*                                                                         *)
(* Strings are tuples of one-character strings, so that the trimming,      *)
(* joining and prefix matching of the Go code are computed character by    *)
(* character.  A nil pointer / nil slice is <<>> and a non-nil one is the  *)
(* one-element tuple <<value>>.                                            *)
(***************************************************************************)
EXTENDS Integers, Sequences, FiniteSets, TLC

(***************************************************************************)
(* Bounds of the model.                                                    *)
(***************************************************************************)
\* longest prefix argument handed to Cleanup
MaxPrefixLen == 3
\* most objects a backend puts in one listing page
MaxPage == 2
\* most empty pages carrying a continuation cursor a backend answers with
MaxEmptyPages == 1
\* most plans handed to Upload
MaxPlans == 3
\* most source paths handed to BuildPlans
MaxPaths == 2

(***************************************************************************)
(* Strings.                                                                *)
(***************************************************************************)
Nil == <<>>

Ptr(v) == <<v>>

Deref(p) == p[1]

NoErr == [kind |-> "nil"]

\* unicode.IsSpace restricted to the characters the model uses
IsSpace(c) == c \in {" ", "\t", "\n", "\r"}

\* byte value of the characters the model uses (ordering of object keys)
CharCode(c) ==
  CASE c = "\t" -> 9  [] c = "\n" -> 10 [] c = "\r" -> 13
    [] c = " " -> 32  [] c = "-" -> 45  [] c = "." -> 46 [] c = "/" -> 47
    [] c = "2" -> 50  [] c = "4" -> 52  [] c = "0" -> 48
    [] c = "a" -> 97  [] c = "b" -> 98  [] c = "d" -> 100 [] c = "e" -> 101
    [] c = "f" -> 102 [] c = "g" -> 103 [] c = "p" -> 112 [] c = "s" -> 115
    [] c = "x" -> 120 [] c = "y" -> 121
    [] OTHER -> 255

RECURSIVE LexLess(_, _)
LexLess(s, t) ==
  IF t = <<>> THEN FALSE
  ELSE IF s = <<>> THEN TRUE
  ELSE IF Head(s) = Head(t) THEN LexLess(Tail(s), Tail(t))
  ELSE CharCode(Head(s)) < CharCode(Head(t))

RECURSIVE SortStrings(_)
SortStrings(S) ==
  IF S = {} THEN <<>>
  ELSE LET m == CHOOSE x \in S : \A y \in S \ {x} : LexLess(x, y)
       IN <<m>> \o SortStrings(S \ {m})

RECURSIVE TrimLeftSet(_, _)
TrimLeftSet(s, cutset) ==
  IF s # <<>> /\ Head(s) \in cutset THEN TrimLeftSet(Tail(s), cutset) ELSE s

RECURSIVE TrimRightSet(_, _)
TrimRightSet(s, cutset) ==
  IF s # <<>> /\ s[Len(s)] \in cutset
  THEN TrimRightSet(SubSeq(s, 1, Len(s) - 1), cutset)
  ELSE s

\* strings.Trim(s, cutset)
Trim(s, cutset) == TrimRightSet(TrimLeftSet(s, cutset), cutset)

RECURSIVE TrimLeftSpace(_)
TrimLeftSpace(s) ==
  IF s # <<>> /\ IsSpace(Head(s)) THEN TrimLeftSpace(Tail(s)) ELSE s

RECURSIVE TrimRightSpace(_)
TrimRightSpace(s) ==
  IF s # <<>> /\ IsSpace(s[Len(s)])
  THEN TrimRightSpace(SubSeq(s, 1, Len(s) - 1))
  ELSE s

\* strings.TrimSpace(s)
TrimSpace(s) == TrimRightSpace(TrimLeftSpace(s))

\* strings.HasPrefix(s, p)
HasPrefix(s, p) == Len(p) <= Len(s) /\ SubSeq(s, 1, Len(p)) = p

UpperCase == <<"A", "B", "C", "D", "E", "F", "G", "H", "I", "J", "K", "L", "M",
               "N", "O", "P", "Q", "R", "S", "T", "U", "V", "W", "X", "Y", "Z">>

LowerCase == <<"a", "b", "c", "d", "e", "f", "g", "h", "i", "j", "k", "l", "m",
               "n", "o", "p", "q", "r", "s", "t", "u", "v", "w", "x", "y", "z">>

ToLowerChar(c) ==
  IF \E i \in DOMAIN UpperCase : UpperCase[i] = c
  THEN LowerCase[CHOOSE i \in DOMAIN UpperCase : UpperCase[i] = c]
  ELSE c

\* strings.ToLower(s)
ToLower(s) == [i \in DOMAIN s |-> ToLowerChar(s[i])]

StringsUpTo(alphabet, n) == UNION {[1..k -> alphabet] : k \in 0..n}

Min(a, b) == IF a < b THEN a ELSE b

RECURSIVE SumLen(_)
SumLen(ss) == IF ss = <<>> THEN 0 ELSE Len(Head(ss)) + SumLen(Tail(ss))

(***************************************************************************)
(* Key Builder.                                                            *)
(***************************************************************************)
\* variant: the slashes are stripped but the whitespace is not
normalizePrefixSlashOnly(prefix) == Trim(prefix, {"/"})

normalizePrefix(prefix) == Trim(TrimSpace(prefix), {"/"})

joinKey(prefix, rel) ==
  LET r == Trim(TrimSpace(rel), {"/"})
  IN IF r = <<>> THEN prefix
     ELSE IF prefix = <<>> THEN r
     ELSE prefix \o <<"/">> \o r

stringPointer(value) == IF TrimSpace(value) = <<>> THEN Nil ELSE Ptr(value)

(***************************************************************************)
(* The bucket: object key -> object body.                                  *)
(***************************************************************************)
KeyPX  == <<"p", "/", "x">>
KeyPY  == <<"p", "/", "y">>
KeyP2X == <<"p", "-", "2", "/", "x">>
KeyX   == <<"x">>

\* keys of the objects a bucket holds before the operation under study
RemoteKeys == {KeyPX, KeyPY, KeyP2X, KeyX}

\* body of an object that was in the bucket before the operation
OldBody == <<"o", "l", "d">>

InitialBuckets == {[k \in K |-> OldBody] : K \in SUBSET RemoteKeys}

\* characters of the prefix argument
PrefixAlphabet == {" ", "/", "p"}

(***************************************************************************)
(* The local filesystem: path -> directory flag, size and content.         *)
(***************************************************************************)
File(size, body) == [dir |-> FALSE, size |-> size, body |-> body]

Dir == [dir |-> TRUE, size |-> 0, body |-> <<>>]

LocalFS ==
  <<"a">> :> File(1, <<"1">>) @@
  <<"b">> :> File(5, <<"2">>) @@
  <<"d">> :> Dir @@
  <<"d", "/", "a">> :> File(0, <<>>) @@
  <<"d", "/", "s">> :> Dir @@
  <<"d", "/", "s", "/", "b">> :> File(5, <<"4">>) @@
  <<"e">> :> Dir @@
  <<"e", "/", "a">> :> File(1, <<"5">>) @@
  <<"f">> :> Dir @@
  <<"f", "/", "a">> :> File(1, <<"6">>) @@
  <<"f", "/", "a", " ">> :> File(1, <<"7">>) @@
  <<"g">> :> Dir @@
  <<"g", "/", " ">> :> File(1, <<"8">>)

\* plans a caller hands to Upload
UploadPlanSet ==
  {[Source |-> <<"a">>, Key |-> KeyX, Size |-> 1],
   [Source |-> <<"b">>, Key |-> KeyPX, Size |-> 5],
   [Source |-> <<"d", "/", "s", "/", "b">>, Key |-> KeyPY, Size |-> 5],
   [Source |-> <<"e", "/", "a">>, Key |-> KeyX, Size |-> 1]}

\* filepath.Separator of the build
Separator == "/"

\* filepath.ToSlash(path)
ToSlash(path) == [i \in DOMAIN path |-> IF path[i] = Separator THEN "/" ELSE path[i]]

RECURSIVE LastIndexOf(_, _)
LastIndexOf(s, c) ==
  IF s = <<>> THEN 0
  ELSE IF s[Len(s)] = c THEN Len(s)
  ELSE LastIndexOf(SubSeq(s, 1, Len(s) - 1), c)

\* filepath.Base(path)
Base(path) ==
  IF path = <<>> THEN <<".">>
  ELSE LET stripped == TrimRightSet(path, {Separator})
           name == SubSeq(stripped, LastIndexOf(stripped, Separator) + 1, Len(stripped))
       IN IF name = <<>> THEN <<Separator>> ELSE name

RECURSIVE CollapseSeparators(_)
CollapseSeparators(s) ==
  IF Len(s) < 2 THEN s
  ELSE IF s[1] = Separator /\ s[2] = Separator THEN CollapseSeparators(Tail(s))
  ELSE <<s[1]>> \o CollapseSeparators(Tail(s))

\* filepath.Clean(path), for paths without "." and ".." elements
Clean(path) ==
  IF path = <<>> THEN <<".">>
  ELSE LET collapsed == CollapseSeparators(path)
           stripped == TrimRightSet(collapsed, {Separator})
       IN IF stripped = <<>> THEN <<Separator>> ELSE stripped

\* variant: the path relative to the parent of the root, led by the root's name
RelFromParent(root, current) ==
  Base(root) \o <<Separator>> \o SubSeq(current, Len(root) + 2, Len(current))

\* filepath.Rel(root, current), for current at or below root
Rel(root, current) ==
  IF current = root THEN <<".">>
  ELSE SubSeq(current, Len(root) + 2, Len(current))

\* os.Stat(path) succeeds: the path names a node, and a path with a
\* trailing separator names a directory
StatOK(path) ==
  /\ Clean(path) \in DOMAIN LocalFS
  /\ (path[Len(path)] = Separator => LocalFS[Clean(path)].dir)

\* the entries of a directory
Children(dir) ==
  {q \in DOMAIN LocalFS :
     /\ HasPrefix(q, dir \o <<Separator>>)
     /\ Len(q) > Len(dir) + 1
     /\ \A i \in (Len(dir) + 2)..Len(q) : q[i] # Separator}

RECURSIVE Concat(_)
Concat(ss) == IF ss = <<>> THEN <<>> ELSE Head(ss) \o Concat(Tail(ss))

\* the paths filepath.WalkDir(root) hands to its callback, in order: the
\* root, then the entries of each directory in lexical order, depth first
RECURSIVE WalkDir(_)
WalkDir(root) ==
  IF LocalFS[root].dir
  THEN LET names == SortStrings(Children(root))
       IN <<root>> \o Concat([i \in DOMAIN names |-> WalkDir(names[i])])
  ELSE <<root>>

\* source paths a caller hands to BuildPlans
PathArgs ==
  {<<>>, <<" ">>, <<"a">>, <<" ", "a", " ">>, <<"b">>, <<"d">>, <<"d", "/">>,
   <<"d", "/", "s">>, <<"e">>, <<"e", "/", "a">>, <<"f">>, <<"g">>, <<"x">>}

VARIABLES
  bucket,       \* remote objects: key -> body
  bucket0,      \* the bucket before the operation started
  trace,        \* the calls made on the client, the uploader and the files
  cl_pc,        \* Cleanup: "idle", "list", "delete", "done"
  cl_prefix,    \* Cleanup: the prefix argument
  cl_token,     \* Cleanup: token
  cl_total,     \* Cleanup: total
  cl_response,  \* Cleanup: response of the last listing
  cl_ret,       \* Cleanup: returned (count, error)
  overwrite,    \* Transport.overwrite
  up_pc,        \* Upload: "idle", "start", "guard", "open", "detect", "put", "done"
  up_plans,     \* Upload: the plans argument
  up_i,         \* Upload: index of the plan of the current iteration
  up_results,   \* Upload: results
  up_file,      \* Upload: file, the handle of the current iteration (0: none)
  up_handles,   \* file handles that are open
  up_ret,       \* Upload: returned (results, error)
  bp_pc,        \* BuildPlans: "idle", "start", "path", "walk", "done"
  bp_paths,     \* BuildPlans: the paths argument
  bp_prefix,    \* BuildPlans: the prefix argument
  bp_i,         \* BuildPlans: index of the path of the current iteration
  bp_root,      \* BuildPlans: root of the directory being walked
  bp_walk,      \* BuildPlans: entries the walk has still to hand to the callback
  bp_plans,     \* BuildPlans: plans
  bp_seen,      \* BuildPlans: seen
  bp_visited,   \* the regular files BuildPlans has come to, with their keys
  bp_ret,       \* BuildPlans: returned (plans, error)
  cf_pc,        \* FromSettingsMap: "idle", "start", "decoded", "done"
  cf_values,    \* FromSettingsMap: the values argument
  cf_ret,       \* FromSettingsMap: returned (cfg, error)
  cf_valid,     \* Validate: returned error
  hu_pc,        \* handleUpload: "idle", "plan", "cleanup", "upload", "done"
  hu_sources,   \* handleUpload: sources
  hu_context,   \* handleUpload: merged.ContextPath
  hu_cleanup,   \* handleUpload: merged.Cleanup
  hu_overwrite, \* handleUpload: merged.Overwrite
  hu_cleaned,   \* handleUpload: cleaned
  hu_ret,       \* handleUpload: the returned ExecutionResult
  hu_run,       \* which run of the same command this is: 1 or 2
  hu_first      \* the result of the first run and the bucket it left

cl_vars == <<cl_pc, cl_prefix, cl_token, cl_total, cl_response, cl_ret>>

up_vars == <<overwrite, up_pc, up_plans, up_i, up_results, up_file, up_handles, up_ret>>

bp_vars == <<bp_pc, bp_paths, bp_prefix, bp_i, bp_root, bp_walk, bp_plans, bp_seen,
             bp_visited, bp_ret>>

cf_vars == <<cf_pc, cf_values, cf_ret, cf_valid>>

hu_vars == <<hu_pc, hu_sources, hu_context, hu_cleanup, hu_overwrite, hu_cleaned, hu_ret,
             hu_run, hu_first>>

vars == <<bucket, bucket0, trace, cl_vars, up_vars, bp_vars, cf_vars, hu_vars>>

\* FromSettingsMap is not running
ConfigIdle ==
  /\ cf_pc = "idle"
  /\ cf_values = Nil
  /\ cf_ret = [cfg |-> Nil, err |-> NoErr]
  /\ cf_valid = NoErr

\* handleUpload is not running
HandleUploadIdle ==
  /\ hu_pc = "idle"
  /\ hu_sources = <<>>
  /\ hu_context = <<>>
  /\ hu_cleanup = FALSE
  /\ hu_overwrite = TRUE
  /\ hu_cleaned = 0
  /\ hu_ret = [ExitCode |-> 0, Error |-> NoErr]
  /\ hu_run = 1
  /\ hu_first = Nil

(***************************************************************************)
(* The storage backend behind Client (an S3-compatible service).           *)
(***************************************************************************)
\* keys a listing with this prefix and cursor still has to return, in order
ListRemaining(b, prefix, token) ==
  SortStrings({k \in DOMAIN b :
                 /\ (prefix # Nil => HasPrefix(k, Deref(prefix)))
                 /\ (token # Nil => LexLess(Deref(token), k))})

EmptyPagesSoFar ==
  Cardinality({i \in DOMAIN trace :
                 /\ trace[i].op = "ListObjectsV2"
                 /\ trace[i].ok
                 /\ trace[i].Contents = <<>>
                 /\ trace[i].NextContinuationToken # Nil})

\* the pages a backend may answer a listing with: the next n keys in key
\* order, and a cursor (the last key handed out so far) whenever keys remain;
\* a backend may also hand out a cursor with the last keys, or with no key
ListPages(b, prefix, token) ==
  LET rem == ListRemaining(b, prefix, token)
      cursor(n) == IF n = 0
                   THEN (IF token = Nil THEN Ptr(<<>>) ELSE token)
                   ELSE Ptr(rem[n])
  IN {[Contents |-> SubSeq(rem, 1, c[1]),
       NextContinuationToken |-> IF c[2] THEN cursor(c[1]) ELSE Nil] :
        c \in {d \in (0..Min(MaxPage, Len(rem))) \X BOOLEAN :
                 /\ (d[1] < Len(rem) => d[2])
                 /\ (d[1] = 0 /\ d[2] => EmptyPagesSoFar < MaxEmptyPages)}}

\* the bucket after a batch delete removed the keys in gone
RemoveKeys(b, gone) == [k \in DOMAIN b \ gone |-> b[k]]

SeqRange(s) == {s[i] : i \in DOMAIN s}

(***************************************************************************)
(* Transport.Cleanup                                                       *)
(***************************************************************************)
\* variant: the scope is the bare normalized prefix, without the "/" suffix
resolvedNoSlash == normalizePrefix(cl_prefix)

resolved ==
  LET r == normalizePrefix(cl_prefix)
  IN IF r # <<>> THEN r \o <<"/">> ELSE r

\* variant: the count is overwritten by the size of the page, not accumulated
CleanupCountLastPage(total, b) == Len(b)

\* the count after a successful batch delete
CleanupCount(total, b) == total + Len(b)

\* variant: the page whose delete failed is counted
CleanupFailureCountsPage(total, b, call) ==
  [total |-> total + Len(b), err |-> [kind |-> "IOError", op |-> call]]

\* what Cleanup returns when a call fails
CleanupFailure(total, b, call) == [total |-> total, err |-> [kind |-> "IOError", op |-> call]]

\* variant: the loop keeps the cursor it has
nextTokenStays(token, response) == token

\* the cursor of the next iteration
nextToken(token, response) == response.NextContinuationToken

\* one iteration of the loop up to the delete call: ListObjectsV2 and the
\* handling of its answer
CleanupList ==
  /\ cl_pc = "list"
  /\ \E ok \in BOOLEAN :
     \E page \in IF ok THEN ListPages(bucket, stringPointer(resolved), cl_token)
                 ELSE {[Contents |-> <<>>, NextContinuationToken |-> Nil]} :
       /\ trace' = Append(trace, [op |-> "ListObjectsV2",
                                  Prefix |-> stringPointer(resolved),
                                  ContinuationToken |-> cl_token,
                                  ok |-> ok,
                                  Contents |-> page.Contents,
                                  NextContinuationToken |-> page.NextContinuationToken])
       /\ IF ~ok
          THEN /\ cl_ret' = CleanupFailure(cl_total, <<>>, "list")
               /\ cl_pc' = "done"
               /\ UNCHANGED <<cl_token, cl_response>>
          ELSE IF Len(page.Contents) = 0
          THEN IF page.NextContinuationToken = Nil
               THEN /\ cl_ret' = [total |-> cl_total, err |-> NoErr]
                    /\ cl_pc' = "done"
                    /\ UNCHANGED <<cl_token, cl_response>>
               ELSE /\ cl_token' = nextToken(cl_token, page)
                    /\ UNCHANGED <<cl_pc, cl_ret, cl_response>>
          ELSE /\ cl_response' = page
               /\ cl_pc' = "delete"
               /\ UNCHANGED <<cl_token, cl_ret>>
  /\ UNCHANGED <<bucket, bucket0, cl_prefix, cl_total, up_vars, bp_vars, cf_vars, hu_vars>>

\* the batch built from the page
batch == cl_response.Contents

\* the rest of the iteration: DeleteObjects and the handling of its answer
CleanupDelete ==
  /\ cl_pc = "delete"
  /\ \E ok \in BOOLEAN :
     \E gone \in IF ok THEN {SeqRange(batch)} ELSE SUBSET SeqRange(batch) :
       /\ trace' = Append(trace, [op |-> "DeleteObjects", Objects |-> batch, ok |-> ok])
       /\ bucket' = RemoveKeys(bucket, gone)
       /\ IF ~ok
          THEN /\ cl_ret' = CleanupFailure(cl_total, batch, "delete")
               /\ cl_pc' = "done"
               /\ UNCHANGED <<cl_token, cl_total>>
          ELSE /\ cl_total' = CleanupCount(cl_total, batch)
               /\ IF cl_response.NextContinuationToken = Nil
                  THEN /\ cl_ret' = [total |-> cl_total', err |-> NoErr]
                       /\ cl_pc' = "done"
                       /\ UNCHANGED cl_token
                  ELSE /\ cl_token' = nextToken(cl_token, cl_response)
                       /\ cl_pc' = "list"
                       /\ UNCHANGED cl_ret
  /\ UNCHANGED <<bucket0, cl_prefix, cl_response, up_vars, bp_vars, cf_vars, hu_vars>>

\* the state in which Cleanup(prefix) starts
CleanupEntry(prefix) ==
  /\ cl_pc = "list"
  /\ cl_prefix = prefix
  /\ cl_token = Nil
  /\ cl_total = 0
  /\ cl_response = [Contents |-> <<>>, NextContinuationToken |-> Nil]
  /\ cl_ret = [total |-> 0, err |-> NoErr]


(***************************************************************************)
(* Errors of HeadObject.                                                   *)
(***************************************************************************)
CodeNotFound   == <<"N", "o", "t", "F", "o", "u", "n", "d">>
CodeNoSuchKey  == <<"N", "o", "S", "u", "c", "h", "K", "e", "y">>
Code404        == <<"4", "0", "4">>
CodeNoSuchKey2 == <<"N", "o", " ", "S", "u", "c", "h", " ", "K", "e", "y">>
CodeForbidden  == <<"F", "o", "r", "b", "i", "d", "d", "e", "n">>

\* an error value: its Go type and, for a smithy.APIError, its ErrorCode()
ErrNotFoundType  == [type |-> "s3types.NotFound", code |-> <<>>]
ErrNoSuchKeyType == [type |-> "s3types.NoSuchKey", code |-> <<>>]
ErrAPI(code)     == [type |-> "smithy.APIError", code |-> code]
ErrOther         == [type |-> "error", code |-> <<>>]

\* how a backend says that the key is absent
AbsentAnswers ==
  {ErrNotFoundType, ErrNoSuchKeyType, ErrAPI(CodeNotFound), ErrAPI(CodeNoSuchKey),
   ErrAPI(Code404), ErrAPI(CodeNoSuchKey2)}

\* errors that say nothing about the key (access denied, network failure)
FailureAnswers == {ErrAPI(CodeForbidden), ErrOther}

\* the answers of HeadObject: nil error (<<>>) when the object exists; a
\* request with an empty key is refused
HeadAnswers(b, key) ==
  IF key = <<>> THEN {Ptr(ErrOther)}
  ELSE IF key \in DOMAIN b THEN {Nil} \cup {Ptr(e) : e \in FailureAnswers}
  ELSE {Ptr(e) : e \in AbsentAnswers \cup FailureAnswers}

\* variant: every error of the probe counts as not-found
isNotFoundAnyError(err) == err # Nil

isNotFound(err) ==
  IF err = Nil THEN FALSE
  ELSE IF Deref(err).type = "s3types.NotFound" THEN TRUE
  ELSE IF Deref(err).type = "s3types.NoSuchKey" THEN TRUE
  ELSE IF Deref(err).type = "smithy.APIError"
  THEN ToLower(Deref(err).code) \in
         {<<"n", "o", "t", "f", "o", "u", "n", "d">>,
          <<"n", "o", "s", "u", "c", "h", "k", "e", "y">>,
          <<"4", "0", "4">>,
          <<"n", "o", " ", "s", "u", "c", "h", " ", "k", "e", "y">>}
  ELSE FALSE

\* the error ensureAbsent(key) returns for the answer of HeadObject
ensureAbsent(key, err) ==
  IF err = Nil THEN [kind |-> "ObjectExists", key |-> key]
  ELSE IF isNotFound(err) THEN NoErr
  ELSE [kind |-> "IOError", op |-> "head", key |-> key, cause |-> Deref(err)]

(***************************************************************************)
(* Transport.Upload                                                        *)
(***************************************************************************)
\* variant: the guard runs when overwrite is enabled
GuardWhenOverwrite(ow) == ow

\* whether the iteration runs the existence guard
GuardNeeded(ow) == ~ow

\* variant: the guard always probes the key of the first plan
GuardKeyOfFirst(ps, i) == ps[1].Key

\* the key the guard of iteration i probes
GuardKey(ps, i) == ps[i].Key

\* variant: the results collected so far are returned with the error
UploadFailurePartial(results, err) == [results |-> Ptr(results), err |-> err]

\* what Upload returns when a step fails
UploadFailure(results, err) == [results |-> Nil, err |-> err]

\* the integrity token the backend computes for a body
ETagOf(body) == <<"e", "t", "a", "g">> \o body

\* aws.ToString
awsToString(p) == IF p = Nil THEN <<>> ELSE Deref(p)

\* variant: a put to a key that holds an object adds the body to what is there
PutObjectAppends(b, key, body) ==
  [k \in DOMAIN b \cup {key} |->
     IF k # key THEN b[k] ELSE IF key \in DOMAIN b THEN b[key] \o body ELSE body]

\* the bucket after a successful put: the object at key is created or replaced
PutObject(b, key, body) == [k \in DOMAIN b \cup {key} |-> IF k = key THEN body ELSE b[k]]

\* variant: the file stays open
CloseFileNever(handles, file) == handles

\* file.Close(): the open handles that remain
CloseFile(handles, file) == handles \ {file}

\* variant: the iterations take the plans from the last to the first
planFromLast == up_plans[Len(up_plans) + 1 - up_i]

\* the plan of the current iteration
plan == up_plans[up_i]

UploadEnter ==
  /\ up_pc = "start"
  /\ IF Len(up_plans) = 0
     THEN /\ up_ret' = UploadFailure(up_results, [kind |-> "InvalidInput"])
          /\ up_pc' = "done"
          /\ UNCHANGED <<up_i, up_results>>
     ELSE /\ up_results' = <<>>
          /\ up_i' = 1
          /\ up_pc' = "guard"
          /\ UNCHANGED up_ret
  /\ UNCHANGED <<bucket, bucket0, trace, cf_vars, hu_vars, cl_vars, bp_vars, overwrite,
                 up_plans, up_file,
                 up_handles>>

\* the head of an iteration: the existence guard when overwrite is disabled
UploadGuard ==
  /\ up_pc = "guard"
  /\ IF GuardNeeded(overwrite)
     THEN \E answer \in HeadAnswers(bucket, GuardKey(up_plans, up_i)) :
            LET err == ensureAbsent(GuardKey(up_plans, up_i), answer)
            IN /\ trace' = Append(trace, [op |-> "HeadObject",
                                          Key |-> GuardKey(up_plans, up_i),
                                          ok |-> answer = Nil,
                                          err |-> answer])
               /\ IF err # NoErr
                  THEN /\ up_ret' = UploadFailure(up_results, err)
                       /\ up_pc' = "done"
                  ELSE /\ up_pc' = "open"
                       /\ UNCHANGED up_ret
     ELSE /\ up_pc' = "open"
          /\ UNCHANGED <<trace, up_ret>>
  /\ UNCHANGED <<bucket, bucket0, cf_vars, hu_vars, cl_vars, bp_vars, overwrite, up_plans,
                 up_i, up_results,
                 up_file, up_handles>>

\* os.Open(plan.Source): a new handle, numbered by its place in the trace
UploadOpen ==
  /\ up_pc = "open"
  /\ \E ok \in (IF plan.Source \in DOMAIN LocalFS THEN BOOLEAN ELSE {FALSE}) :
       /\ trace' = Append(trace, [op |-> "Open", Source |-> plan.Source, ok |-> ok])
       /\ IF ok
          THEN /\ up_file' = Len(trace')
               /\ up_handles' = up_handles \cup {Len(trace')}
               /\ up_pc' = "detect"
               /\ UNCHANGED up_ret
          ELSE /\ up_ret' = UploadFailure(up_results, [kind |-> "IOError", op |-> "open",
                                                       path |-> plan.Source])
               /\ up_pc' = "done"
               /\ UNCHANGED <<up_file, up_handles>>
  /\ UNCHANGED <<bucket, bucket0, cf_vars, hu_vars, cl_vars, bp_vars, overwrite, up_plans,
                 up_i, up_results>>

\* detectContentType and the rewind of the file
UploadDetect ==
  /\ up_pc = "detect"
  /\ \E ok \in BOOLEAN :
       /\ IF ok
          THEN /\ trace' = Append(trace, [op |-> "Seek", Source |-> plan.Source, ok |-> TRUE])
               /\ up_pc' = "put"
               /\ UNCHANGED <<up_ret, up_file, up_handles>>
          ELSE /\ trace' = trace \o <<[op |-> "Seek", Source |-> plan.Source, ok |-> FALSE],
                                      [op |-> "Close", Source |-> plan.Source, ok |-> TRUE]>>
               /\ up_handles' = CloseFile(up_handles, up_file)
               /\ up_file' = 0
               /\ up_ret' = UploadFailure(up_results, [kind |-> "IOError", op |-> "rewind",
                                                       path |-> plan.Source])
               /\ up_pc' = "done"
  /\ UNCHANGED <<bucket, bucket0, cf_vars, hu_vars, cl_vars, bp_vars, overwrite, up_plans,
                 up_i, up_results>>

\* the streaming put, the close of the file and the end of the iteration;
\* a put with an empty key is refused
UploadPut ==
  /\ up_pc = "put"
  /\ \E ok \in (IF plan.Key = <<>> THEN {FALSE} ELSE BOOLEAN) :
       /\ trace' = trace \o <<[op |-> "PutObject", Key |-> plan.Key,
                                Source |-> plan.Source, ok |-> ok],
                               [op |-> "Close", Source |-> plan.Source, ok |-> TRUE]>>
       /\ up_handles' = CloseFile(up_handles, up_file)
       /\ up_file' = 0
       /\ IF ~ok
          THEN /\ up_ret' = UploadFailure(up_results, [kind |-> "IOError", op |-> "upload",
                                                       path |-> plan.Source, key |-> plan.Key])
               /\ up_pc' = "done"
               /\ UNCHANGED <<bucket, up_i, up_results>>
          ELSE /\ bucket' = PutObject(bucket, plan.Key, LocalFS[plan.Source].body)
               /\ up_results' = Append(up_results,
                                       [Source |-> plan.Source, Key |-> plan.Key,
                                        Size |-> plan.Size,
                                        ETag |-> awsToString(Ptr(ETagOf(LocalFS[plan.Source].body)))])
               /\ up_i' = up_i + 1
               /\ IF up_i' > Len(up_plans)
                  THEN /\ up_ret' = [results |-> Ptr(up_results'), err |-> NoErr]
                       /\ up_pc' = "done"
                  ELSE /\ up_pc' = "guard"
                       /\ UNCHANGED up_ret
  /\ UNCHANGED <<bucket0, cf_vars, hu_vars, cl_vars, bp_vars, overwrite, up_plans>>

\* the state in which Upload(plans) starts on a transport
UploadEntry(ow, plans) ==
  /\ overwrite = ow
  /\ up_pc = "start"
  /\ up_plans = plans
  /\ up_i = 0
  /\ up_results = <<>>
  /\ up_file = 0
  /\ up_handles = {}
  /\ up_ret = [results |-> Nil, err |-> NoErr]

UploadIdle ==
  /\ overwrite = TRUE
  /\ up_pc = "idle"
  /\ up_plans = <<>>
  /\ up_i = 0
  /\ up_results = <<>>
  /\ up_file = 0
  /\ up_handles = {}
  /\ up_ret = [results |-> Nil, err |-> NoErr]

CleanupIdle ==
  /\ cl_pc = "idle"
  /\ cl_prefix = <<>>
  /\ cl_token = Nil
  /\ cl_total = 0
  /\ cl_response = [Contents |-> <<>>, NextContinuationToken |-> Nil]
  /\ cl_ret = [total |-> 0, err |-> NoErr]


(***************************************************************************)
(* BuildPlans                                                              *)
(***************************************************************************)
basePrefix == normalizePrefix(bp_prefix)

\* variant: the set of assigned keys starts afresh with every input path
SeenPerPath(seen) == {}

\* the set of assigned keys an input path starts with
SeenAtPath(seen) == seen

\* variant: directories get a plan as well
SkipEntryNever(entry) == FALSE

\* whether the walk callback skips the entry
SkipEntry(entry) == LocalFS[entry].dir

\* variant: a failing call hands back the plans made so far
BuildPlansFailurePartial(plans, err) == [plans |-> Ptr(plans), err |-> err]

\* what BuildPlans returns when it fails
BuildPlansFailure(plans, err) == [plans |-> Nil, err |-> err]

DuplicateKey(key) == [kind |-> "DuplicateKey", key |-> key]

\* the end of the iteration over path i: the next path, or the return
BuildPlansContinue(plans) ==
  /\ bp_i' = bp_i + 1
  /\ IF bp_i' > Len(bp_paths)
     THEN /\ bp_ret' = [plans |-> Ptr(plans), err |-> NoErr]
          /\ bp_pc' = "done"
     ELSE /\ bp_pc' = "path"
          /\ UNCHANGED bp_ret

BuildPlansEnter ==
  /\ bp_pc = "start"
  /\ IF Len(bp_paths) = 0
     THEN /\ bp_ret' = BuildPlansFailure(bp_plans, [kind |-> "InvalidInput", what |-> "paths"])
          /\ bp_pc' = "done"
          /\ UNCHANGED <<bp_i, bp_plans, bp_seen>>
     ELSE /\ bp_plans' = <<>>
          /\ bp_seen' = {}
          /\ bp_i' = 1
          /\ bp_pc' = "path"
          /\ UNCHANGED bp_ret
  /\ UNCHANGED <<bucket, bucket0, trace, cf_vars, hu_vars, cl_vars, up_vars, bp_paths,
                 bp_prefix, bp_root,
                 bp_walk, bp_visited>>

\* one input path: a blank entry, a path that cannot be stat'ed, a
\* directory (the walk starts) or a regular file (one plan)
BuildPlansPath ==
  /\ bp_pc = "path"
  /\ LET path == TrimSpace(bp_paths[bp_i])
         seen == SeenAtPath(bp_seen)
         key == joinKey(basePrefix, ToSlash(Base(path)))
     IN IF path = <<>>
        THEN /\ bp_ret' = BuildPlansFailure(bp_plans, [kind |-> "InvalidInput", what |-> "entry"])
             /\ bp_pc' = "done"
             /\ UNCHANGED <<bp_i, bp_root, bp_walk, bp_plans, bp_seen, bp_visited>>
        ELSE IF ~StatOK(path)
        THEN /\ bp_ret' = BuildPlansFailure(bp_plans, [kind |-> "IOError", op |-> "stat",
                                                       path |-> path])
             /\ bp_pc' = "done"
             /\ UNCHANGED <<bp_i, bp_root, bp_walk, bp_plans, bp_seen, bp_visited>>
        ELSE IF LocalFS[Clean(path)].dir
        THEN /\ bp_root' = Clean(path)
             /\ bp_walk' = WalkDir(Clean(path))
             /\ bp_seen' = seen
             /\ bp_pc' = "walk"
             /\ UNCHANGED <<bp_i, bp_plans, bp_visited, bp_ret>>
        ELSE /\ bp_visited' = Append(bp_visited, [Source |-> path, Key |-> key])
             /\ IF key \in seen
                THEN /\ bp_ret' = BuildPlansFailure(bp_plans, DuplicateKey(key))
                     /\ bp_pc' = "done"
                     /\ UNCHANGED <<bp_i, bp_plans, bp_seen>>
                ELSE /\ bp_seen' = seen \cup {key}
                     /\ bp_plans' = Append(bp_plans, [Source |-> path, Key |-> key,
                                                      Size |-> LocalFS[Clean(path)].size])
                     /\ BuildPlansContinue(bp_plans')
             /\ UNCHANGED <<bp_root, bp_walk>>
  /\ UNCHANGED <<bucket, bucket0, trace, cf_vars, hu_vars, cl_vars, up_vars, bp_paths, bp_prefix>>

\* one call of the walk callback, and the end of the walk after the last
BuildPlansWalk ==
  /\ bp_pc = "walk"
  /\ LET current == Head(bp_walk)
         rel == Rel(bp_root, current)
         key == joinKey(basePrefix, ToSlash(rel))
     IN \E failed \in BOOLEAN :
          IF failed
          THEN \* walkErr for a directory that cannot be read, or entry.Info() failing
               /\ bp_ret' = BuildPlansFailure(bp_plans,
                               [kind |-> "IOError",
                                op |-> IF LocalFS[current].dir THEN "traverse" ELSE "inspect",
                                path |-> current])
               /\ bp_pc' = "done"
               /\ UNCHANGED <<bp_i, bp_walk, bp_plans, bp_seen, bp_visited>>
          ELSE IF SkipEntry(current)
          THEN /\ bp_walk' = Tail(bp_walk)
               /\ IF bp_walk' = <<>>
                  THEN BuildPlansContinue(bp_plans)
                  ELSE UNCHANGED <<bp_i, bp_pc, bp_ret>>
               /\ UNCHANGED <<bp_plans, bp_seen, bp_visited>>
          ELSE /\ bp_visited' = Append(bp_visited, [Source |-> current, Key |-> key])
               /\ IF key \in bp_seen
                  THEN /\ bp_ret' = BuildPlansFailure(bp_plans, DuplicateKey(key))
                       /\ bp_pc' = "done"
                       /\ UNCHANGED <<bp_i, bp_walk, bp_plans, bp_seen>>
                  ELSE /\ bp_seen' = bp_seen \cup {key}
                       /\ bp_plans' = Append(bp_plans, [Source |-> current, Key |-> key,
                                                        Size |-> LocalFS[current].size])
                       /\ bp_walk' = Tail(bp_walk)
                       /\ IF bp_walk' = <<>>
                          THEN BuildPlansContinue(bp_plans')
                          ELSE UNCHANGED <<bp_i, bp_pc, bp_ret>>
  /\ UNCHANGED <<bucket, bucket0, trace, cf_vars, hu_vars, cl_vars, up_vars, bp_paths,
                 bp_prefix, bp_root>>

\* the state in which BuildPlans(paths, prefix) starts
BuildPlansEntry(paths, prefix) ==
  /\ bp_pc = "start"
  /\ bp_paths = paths
  /\ bp_prefix = prefix
  /\ bp_i = 0
  /\ bp_root = <<>>
  /\ bp_walk = <<>>
  /\ bp_plans = <<>>
  /\ bp_seen = {}
  /\ bp_visited = <<>>
  /\ bp_ret = [plans |-> Nil, err |-> NoErr]

BuildPlansIdle ==
  /\ bp_pc = "idle"
  /\ bp_paths = <<>>
  /\ bp_prefix = <<>>
  /\ bp_i = 0
  /\ bp_root = <<>>
  /\ bp_walk = <<>>
  /\ bp_plans = <<>>
  /\ bp_seen = {}
  /\ bp_visited = <<>>
  /\ bp_ret = [plans |-> Nil, err |-> NoErr]

InitPlans ==
  /\ ConfigIdle
  /\ HandleUploadIdle
  /\ bucket \in {[k \in {} |-> OldBody]}
  /\ bucket0 = bucket
  /\ trace = <<>>
  /\ CleanupIdle
  /\ UploadIdle
  /\ \E paths \in UNION {[1..n -> PathArgs] : n \in 0..MaxPaths} :
     \E prefix \in StringsUpTo(PrefixAlphabet, MaxPrefixLen) : BuildPlansEntry(paths, prefix)

NextPlans == BuildPlansEnter \/ BuildPlansPath \/ BuildPlansWalk

SpecPlans == InitPlans /\ [][NextPlans]_vars

InitUpload ==
  /\ ConfigIdle
  /\ HandleUploadIdle
  /\ bucket \in InitialBuckets
  /\ bucket0 = bucket
  /\ trace = <<>>
  /\ CleanupIdle
  /\ BuildPlansIdle
  /\ \E ow \in BOOLEAN :
     \E plans \in UNION {[1..n -> UploadPlanSet] : n \in 0..MaxPlans} : UploadEntry(ow, plans)

NextUpload == UploadEnter \/ UploadGuard \/ UploadOpen \/ UploadDetect \/ UploadPut

SpecUpload == InitUpload /\ [][NextUpload]_vars

InitCleanup ==
  /\ ConfigIdle
  /\ HandleUploadIdle
  /\ bucket \in InitialBuckets
  /\ bucket0 = bucket
  /\ trace = <<>>
  /\ UploadIdle
  /\ BuildPlansIdle
  /\ \E prefix \in StringsUpTo(PrefixAlphabet, MaxPrefixLen) : CleanupEntry(prefix)

NextCleanup == CleanupList \/ CleanupDelete

SpecCleanup == InitCleanup /\ [][NextCleanup]_vars

\* Cleanup runs on: a call that can return does return, and the loop goes
\* on to its next call
SpecCleanupFair == SpecCleanup /\ WF_vars(CleanupList) /\ WF_vars(CleanupDelete)


(***************************************************************************)
(* Configuration: config.FromSettingsMap and Config.Validate.  Of the      *)
(* string settings only bucket, endpoint, context_path and sources are     *)
(* kept; region, profile and the credentials are decoded like bucket.      *)
(***************************************************************************)
\* values of a settings map, as the host hands them over: a bool b, a
\* string s or an integer n
RawBool(v) == [type |-> "bool", b |-> v, s |-> <<>>, n |-> 0]

RawString(v) == [type |-> "string", b |-> FALSE, s |-> v, n |-> 0]

RawInt(v) == [type |-> "int", b |-> FALSE, s |-> <<>>, n |-> v]

\* strconv.ParseBool
ParseBool(str) ==
  IF str \in {<<"1">>, <<"t">>, <<"T">>, <<"t", "r", "u", "e">>, <<"T", "R", "U", "E">>,
              <<"T", "r", "u", "e">>}
  THEN [ok |-> TRUE, v |-> TRUE]
  ELSE IF str \in {<<"0">>, <<"f">>, <<"F">>, <<"f", "a", "l", "s", "e">>,
                   <<"F", "A", "L", "S", "E">>, <<"F", "a", "l", "s", "e">>}
  THEN [ok |-> TRUE, v |-> FALSE]
  ELSE [ok |-> FALSE, v |-> FALSE]

\* the decoder's conversion to bool with WeaklyTypedInput
DecodeBool(raw) ==
  IF raw.type = "bool" THEN [ok |-> TRUE, v |-> raw.b]
  ELSE IF raw.type = "int" THEN [ok |-> TRUE, v |-> raw.n # 0]
  ELSE IF raw.s = <<>> THEN [ok |-> TRUE, v |-> FALSE]
  ELSE ParseBool(raw.s)

\* a *bool field of rawSettings after the decoding: nil when the key is absent
DecodeBoolPtr(entry) == IF entry = Nil THEN Nil ELSE Ptr(DecodeBool(Deref(entry)).v)

\* a string field of rawSettings after the decoding: "" when the key is absent
DecodeString(entry) == IF entry = Nil THEN <<>> ELSE Deref(entry)

\* whether decoder.Decode(values) succeeds
DecodeOK(values) ==
  /\ \A k \in {"cleanup", "overwrite", "force_path_style"} :
       values[k] # Nil => DecodeBool(Deref(values[k])).ok
  /\ values.tls # Nil /\ Deref(values.tls).skip_verify # Nil =>
       DecodeBool(Deref(Deref(values.tls).skip_verify)).ok

\* rawSettings after decoder.Decode(values)
rawSettings(values) ==
  [Bucket |-> DecodeString(values.bucket),
   ContextPath |-> DecodeString(values.context_path),
   Sources |-> IF values.sources = Nil THEN Nil ELSE Deref(values.sources),
   Cleanup |-> DecodeBoolPtr(values.cleanup),
   Overwrite |-> DecodeBoolPtr(values.overwrite),
   Endpoint |-> DecodeString(values.endpoint),
   ForcePathStyle |-> DecodeBoolPtr(values.force_path_style),
   TLS |-> IF values.tls = Nil THEN Nil
           ELSE Ptr([SkipVerify |-> DecodeBoolPtr(Deref(values.tls).skip_verify)])]

normalizeContextPath(value) == Trim(TrimSpace(value), {"/"})

\* the entries of values that are not blank, trimmed
RECURSIVE cleanedSources(_)
cleanedSources(values) ==
  IF values = <<>> THEN <<>>
  ELSE IF TrimSpace(Head(values)) # <<>>
  THEN <<TrimSpace(Head(values))>> \o cleanedSources(Tail(values))
  ELSE cleanedSources(Tail(values))

\* a nil slice is <<>>, as is an empty one
normalizeSources(values) == IF Len(values) = 0 THEN Nil ELSE cleanedSources(values)

\* variant: objects are not overwritten unless the settings say so
DefaultOverwriteOff == FALSE

\* the value of Overwrite before the settings are applied
DefaultOverwrite == TRUE

\* the value of Cleanup before the settings are applied
DefaultCleanup == FALSE

\* the Config FromSettingsMap starts from
DefaultConfig ==
  [Bucket |-> <<>>, ContextPath |-> <<>>, Sources |-> Nil, Cleanup |-> DefaultCleanup,
   Overwrite |-> DefaultOverwrite, Endpoint |-> <<>>, ForcePathStyle |-> FALSE,
   SkipTLSVerify |-> FALSE]

\* the Config FromSettingsMap makes of the decoded settings
ConfigOf(raw) ==
  [Bucket |-> TrimSpace(raw.Bucket),
   ContextPath |-> normalizeContextPath(raw.ContextPath),
   Sources |-> normalizeSources(raw.Sources),
   Cleanup |-> IF raw.Cleanup # Nil THEN Deref(raw.Cleanup) ELSE DefaultConfig.Cleanup,
   Overwrite |-> IF raw.Overwrite # Nil THEN Deref(raw.Overwrite)
                 ELSE DefaultConfig.Overwrite,
   Endpoint |-> TrimSpace(raw.Endpoint),
   ForcePathStyle |-> IF raw.ForcePathStyle # Nil THEN Deref(raw.ForcePathStyle)
                      ELSE DefaultConfig.ForcePathStyle,
   SkipTLSVerify |-> IF raw.TLS # Nil /\ Deref(raw.TLS).SkipVerify # Nil
                     THEN Deref(Deref(raw.TLS).SkipVerify)
                     ELSE DefaultConfig.SkipTLSVerify]

\* FromSettingsMap(values)
FromSettingsMap(values) ==
  IF values = Nil THEN [cfg |-> Ptr(DefaultConfig), err |-> NoErr]
  ELSE IF ~DecodeOK(Deref(values)) THEN [cfg |-> Nil, err |-> [kind |-> "DecodeError"]]
  ELSE [cfg |-> Ptr(ConfigOf(rawSettings(Deref(values)))), err |-> NoErr]

\* Config.Validate()
Validate(c) ==
  IF TrimSpace(c.Bucket) = <<>> THEN [kind |-> "Invalid", what |-> "bucket"]
  ELSE IF c.SkipTLSVerify /\ TrimSpace(c.Endpoint) = <<>>
  THEN [kind |-> "Invalid", what |-> "tls.skip_verify"]
  ELSE NoErr

\* the call of FromSettingsMap
FromSettingsMapCall ==
  /\ cf_pc = "start"
  /\ cf_ret' = FromSettingsMap(cf_values)
  /\ cf_pc' = "done"
  /\ UNCHANGED <<bucket, bucket0, trace, cl_vars, up_vars, bp_vars, hu_vars, cf_values,
                 cf_valid>>

\* the call of Validate on the resolved Config
ValidateCall ==
  /\ cf_pc = "done"
  /\ cf_ret.cfg # Nil
  /\ cf_valid' = Validate(Deref(cf_ret.cfg))
  /\ cf_pc' = "validated"
  /\ UNCHANGED <<bucket, bucket0, trace, cl_vars, up_vars, bp_vars, hu_vars, cf_values,
                 cf_ret>>

\* values of the settings that stand for a bool
RawBools ==
  {RawBool(TRUE), RawBool(FALSE), RawString(<<"f", "a", "l", "s", "e">>),
   RawString(<<"x">>), RawInt(1)}

\* an entry of the settings map: absent, or one of the values
Optional(S) == {Nil} \cup {Ptr(v) : v \in S}

\* the settings maps of the plugin the host may hold, nil among them
SettingsMaps ==
  {Nil} \cup
  {Ptr(v) : v \in
     [bucket : Optional({<<" ", "b", " ">>}),
      context_path : Optional({<<" ", "/", "p", "/">>}),
      sources : Optional({<<>>, << <<" ", "a", " ">>, <<" ">> >>}),
      cleanup : Optional(RawBools),
      overwrite : Optional(RawBools),
      endpoint : Optional({<<"e">>}),
      force_path_style : Optional({RawBool(TRUE)}),
      tls : Optional([skip_verify : Optional({RawBool(TRUE)})])]}

InitConfig ==
  /\ bucket \in {[k \in {} |-> OldBody]}
  /\ bucket0 = bucket
  /\ trace = <<>>
  /\ CleanupIdle
  /\ UploadIdle
  /\ BuildPlansIdle
  /\ HandleUploadIdle
  /\ cf_pc = "start"
  /\ cf_values \in SettingsMaps
  /\ cf_ret = [cfg |-> Nil, err |-> NoErr]
  /\ cf_valid = NoErr

NextConfig == FromSettingsMapCall \/ ValidateCall

SpecConfig == InitConfig /\ [][NextConfig]_vars

(***************************************************************************)
(* Plugin.handleUpload from the planning on: BuildPlans, then Cleanup when *)
(* it is enabled, then Upload; and the same command given a second time.   *)
(***************************************************************************)
\* merged.ContextPath: the --context flag, or the configured context path
mergedContextPath(flag, base) == IF flag # <<>> THEN Trim(flag, {"/"}) ELSE base

\* the ExecutionResult of a failed command
ExecutionFailure(err) == [ExitCode |-> 1, Error |-> err]

\* the ExecutionResult of a command that went through
ExecutionSuccess == [ExitCode |-> 0, Error |-> NoErr]

\* variant: the cleanup runs whatever the setting
CleanupWantedAlways(cleanup) == TRUE

\* whether handleUpload calls Cleanup
CleanupWanted(cleanup) == cleanup

\* variant: a failed cleanup does not end the command
CleanupBlocksNever(err) == FALSE

\* whether the error of Cleanup ends the command
CleanupBlocks(err) == err # NoErr

\* uploader.BuildPlans(paths, prefix) is called
CallBuildPlans(paths, prefix) ==
  /\ bp_pc' = "start"
  /\ bp_paths' = paths
  /\ bp_prefix' = prefix
  /\ bp_i' = 0
  /\ bp_root' = <<>>
  /\ bp_walk' = <<>>
  /\ bp_plans' = <<>>
  /\ bp_seen' = {}
  /\ bp_visited' = <<>>
  /\ bp_ret' = [plans |-> Nil, err |-> NoErr]

\* transfer.Cleanup(ctx, prefix) is called
CallCleanup(prefix) ==
  /\ cl_pc' = "list"
  /\ cl_prefix' = prefix
  /\ cl_token' = Nil
  /\ cl_total' = 0
  /\ cl_response' = [Contents |-> <<>>, NextContinuationToken |-> Nil]
  /\ cl_ret' = [total |-> 0, err |-> NoErr]

\* transfer.Upload(ctx, plans) is called
CallUpload(plans) ==
  /\ up_pc' = "start"
  /\ up_plans' = plans
  /\ up_i' = 0
  /\ up_results' = <<>>
  /\ up_file' = 0
  /\ up_handles' = {}
  /\ up_ret' = [results |-> Nil, err |-> NoErr]
  /\ UNCHANGED overwrite

\* BuildPlans has returned: the command ends on its error, and goes on to
\* the cleanup or straight to the transfer otherwise
HandleUploadPlanned ==
  /\ hu_pc = "plan"
  /\ bp_pc = "done"
  /\ IF bp_ret.err # NoErr
     THEN /\ hu_ret' = ExecutionFailure(bp_ret.err)
          /\ hu_pc' = "done"
          /\ UNCHANGED <<cl_vars, up_vars, hu_cleaned>>
     ELSE IF CleanupWanted(hu_cleanup)
     THEN /\ hu_cleaned' = 0
          /\ CallCleanup(hu_context)
          /\ hu_pc' = "cleanup"
          /\ UNCHANGED <<up_vars, hu_ret>>
     ELSE /\ hu_cleaned' = 0
          /\ CallUpload(Deref(bp_ret.plans))
          /\ hu_pc' = "upload"
          /\ UNCHANGED <<cl_vars, hu_ret>>
  /\ UNCHANGED <<bucket, bucket0, trace, bp_vars, cf_vars, hu_sources, hu_context,
                 hu_cleanup, hu_overwrite, hu_run, hu_first>>

\* Cleanup has returned: the command ends on its error, and goes on to the
\* transfer otherwise
HandleUploadCleaned ==
  /\ hu_pc = "cleanup"
  /\ cl_pc = "done"
  /\ IF CleanupBlocks(cl_ret.err)
     THEN /\ hu_ret' = ExecutionFailure([kind |-> "CleanupFailed", cause |-> cl_ret.err])
          /\ hu_pc' = "done"
          /\ UNCHANGED <<up_vars, hu_cleaned>>
     ELSE /\ hu_cleaned' = cl_ret.total
          /\ CallUpload(Deref(bp_ret.plans))
          /\ hu_pc' = "upload"
          /\ UNCHANGED hu_ret
  /\ UNCHANGED <<bucket, bucket0, trace, cl_vars, bp_vars, cf_vars, hu_sources, hu_context,
                 hu_cleanup, hu_overwrite, hu_run, hu_first>>

\* Upload has returned: the command ends with its error or with the summary
HandleUploadTransferred ==
  /\ hu_pc = "upload"
  /\ up_pc = "done"
  /\ hu_ret' = IF up_ret.err # NoErr THEN ExecutionFailure(up_ret.err) ELSE ExecutionSuccess
  /\ hu_pc' = "done"
  /\ UNCHANGED <<bucket, bucket0, trace, cl_vars, up_vars, bp_vars, cf_vars, hu_sources,
                 hu_context, hu_cleanup, hu_overwrite, hu_cleaned, hu_run, hu_first>>

\* the same command is given once more after it went through: a new run of
\* handleUpload with the same arguments on the bucket as it is now; the
\* trace starts again with each run
HandleUploadAgain ==
  /\ hu_pc = "done"
  /\ hu_run = 1
  /\ hu_ret.ExitCode = 0
  /\ hu_first' = Ptr([ret |-> hu_ret, bucket |-> bucket])
  /\ hu_run' = 2
  /\ bucket0' = bucket
  /\ trace' = <<>>
  /\ hu_ret' = ExecutionSuccess
  /\ hu_cleaned' = 0
  /\ cl_pc' = "idle"
  /\ cl_prefix' = <<>>
  /\ cl_token' = Nil
  /\ cl_total' = 0
  /\ cl_response' = [Contents |-> <<>>, NextContinuationToken |-> Nil]
  /\ cl_ret' = [total |-> 0, err |-> NoErr]
  /\ up_pc' = "idle"
  /\ up_plans' = <<>>
  /\ up_i' = 0
  /\ up_results' = <<>>
  /\ up_file' = 0
  /\ up_handles' = {}
  /\ up_ret' = [results |-> Nil, err |-> NoErr]
  /\ CallBuildPlans(hu_sources, hu_context)
  /\ hu_pc' = "plan"
  /\ UNCHANGED <<bucket, overwrite, cf_vars, hu_sources, hu_context, hu_cleanup,
                 hu_overwrite>>

\* the source paths of the command
SourceLists ==
  {<< <<"a">> >>, << <<"d">> >>, << <<"g">> >>, << <<"a">>, <<"g">> >>,
   << <<"a">>, <<"x">> >>}

\* values of the --context flag
ContextFlags == {<<>>, <<"p">>, <<"p", "/">>, <<" ", "p">>}

\* keys of the objects the bucket may hold before the first run
KeyP == <<"p">>

KeyPA == <<"p", "/", "a">>

PipelineBuckets == {[k \in K |-> OldBody] : K \in SUBSET {KeyP, KeyPA, KeyPX, KeyP2X}}

InitPipeline ==
  /\ bucket \in PipelineBuckets
  /\ bucket0 = bucket
  /\ trace = <<>>
  /\ ConfigIdle
  /\ CleanupIdle
  /\ hu_pc = "plan"
  /\ hu_sources \in SourceLists
  /\ \E flag \in ContextFlags : hu_context = mergedContextPath(flag, normalizeContextPath(<<>>))
  /\ hu_cleanup \in BOOLEAN
  /\ hu_overwrite \in BOOLEAN
  /\ hu_cleaned = 0
  /\ hu_ret = ExecutionSuccess
  /\ hu_run = 1
  /\ hu_first = Nil
  /\ overwrite = hu_overwrite
  /\ up_pc = "idle"
  /\ up_plans = <<>>
  /\ up_i = 0
  /\ up_results = <<>>
  /\ up_file = 0
  /\ up_handles = {}
  /\ up_ret = [results |-> Nil, err |-> NoErr]
  /\ BuildPlansEntry(hu_sources, hu_context)

NextPipeline ==
  \/ BuildPlansEnter \/ BuildPlansPath \/ BuildPlansWalk
  \/ HandleUploadPlanned
  \/ CleanupList \/ CleanupDelete
  \/ HandleUploadCleaned
  \/ UploadEnter \/ UploadGuard \/ UploadOpen \/ UploadDetect \/ UploadPut
  \/ HandleUploadTransferred
  \/ HandleUploadAgain

SpecPipeline == InitPipeline /\ [][NextPipeline]_vars

(***************************************************************************)
(* All of it together: any one operation called on its own, or the         *)
(* command that chains them.                                               *)
(***************************************************************************)
Init == InitPlans \/ InitCleanup \/ InitUpload \/ InitConfig \/ InitPipeline

Next == NextPlans \/ NextCleanup \/ NextUpload \/ NextConfig \/ NextPipeline

Spec == Init /\ [][Next]_vars

(***************************************************************************)
(* Properties of Transport.Cleanup.                                        *)
(***************************************************************************)
IsList(e) == e.op = "ListObjectsV2"

IsDelete(e) == e.op = "DeleteObjects"

IsOkDelete(e) == e.op = "DeleteObjects" /\ e.ok

IsNonEmptyPage(e) == e.op = "ListObjectsV2" /\ e.ok /\ e.Contents # <<>>

ListCalls == SelectSeq(trace, IsList)

DeleteCalls == SelectSeq(trace, IsDelete)

\* C5: when no listing or deletion call fails, Cleanup issues at least one
\* listing, one batch delete per non-empty page naming exactly the keys of
\* that page, every listed object is gone from the bucket, and the returned
\* count is the number of objects deleted.
CleanupDeletesEveryListedObject ==
  (cl_pc = "done" /\ \A i \in DOMAIN trace : trace[i].ok) =>
    LET pages == SelectSeq(trace, IsNonEmptyPage)
    IN /\ cl_ret.err = NoErr
       /\ Len(ListCalls) >= 1
       /\ Len(DeleteCalls) = Len(pages)
       /\ \A i \in DOMAIN pages : DeleteCalls[i].Objects = pages[i].Contents
       /\ \A i \in DOMAIN pages : \A k \in SeqRange(pages[i].Contents) : k \notin DOMAIN bucket
       /\ cl_ret.total = SumLen([i \in DOMAIN pages |-> pages[i].Contents])
       /\ cl_ret.total = Cardinality(DOMAIN bucket0) - Cardinality(DOMAIN bucket)

\* a cleanup that went through several pages and deleted their objects
CleanupSeveralPagesDone ==
  /\ cl_pc = "done"
  /\ cl_ret.err = NoErr
  /\ Len(DeleteCalls) >= 2
  /\ cl_ret.total = 3

\* C6: Cleanup("p") lists with the prefix "p/" only, names no key outside
\* that scope in a delete request, and leaves every object outside the scope
\* (such as "p-2/x") in the bucket; the same for every prefix that normalizes
\* to a non-empty string.
CleanupStaysInScope ==
  LET scope == normalizePrefix(cl_prefix) \o <<"/">>
  IN /\ normalizePrefix(cl_prefix) # <<>> =>
          /\ \A i \in DOMAIN ListCalls : ListCalls[i].Prefix = Ptr(scope)
          /\ \A i \in DOMAIN DeleteCalls :
                \A k \in SeqRange(DeleteCalls[i].Objects) : HasPrefix(k, scope)
          /\ \A k \in DOMAIN bucket0 : ~HasPrefix(k, scope) => k \in DOMAIN bucket
     /\ cl_prefix = <<"p">> =>
          /\ \A i \in DOMAIN ListCalls : ListCalls[i].Prefix = Ptr(<<"p", "/">>)
          /\ \A k \in {KeyP2X, KeyX} : k \in DOMAIN bucket0 => k \in DOMAIN bucket

\* Cleanup("p") has removed p/x and p/y and returned, and p-2/x is still there
CleanupScopedDone ==
  /\ cl_pc = "done"
  /\ cl_ret.err = NoErr
  /\ cl_prefix = <<"p">>
  /\ {KeyPX, KeyPY, KeyP2X} \subseteq DOMAIN bucket0
  /\ DOMAIN bucket \cap {KeyPX, KeyPY, KeyP2X} = {KeyP2X}

\* whitespace, then slashes, then whitespace (the empty string included)
SpacesSlashesSpaces(s) ==
  \E i \in 0..Len(s) : \E j \in i..Len(s) :
    \A n \in 1..Len(s) :
      IF n <= i \/ n > j THEN IsSpace(s[n]) ELSE s[n] = "/"

\* C7 as stated: every non-empty prefix argument makes the listing carry the
\* non-empty scope "normalized prefix" + "/", never an absent prefix.
CleanupNonEmptyPrefixIsScoped ==
  cl_prefix # <<>> =>
    \A i \in DOMAIN ListCalls :
      /\ ListCalls[i].Prefix # Nil
      /\ ListCalls[i].Prefix = Ptr(normalizePrefix(cl_prefix) \o <<"/">>)

\* C7 (amended): the listing carries an absent, bucket-wide prefix exactly
\* when the prefix argument is whitespace, slashes, whitespace (which is when
\* it normalizes to the empty string); every other argument makes it carry
\* the non-empty scope "normalized prefix" + "/".
CleanupBucketWideIffPrefixNormalizesEmpty ==
  \A i \in DOMAIN ListCalls :
    IF SpacesSlashesSpaces(cl_prefix)
    THEN ListCalls[i].Prefix = Nil
    ELSE /\ ListCalls[i].Prefix # Nil
         /\ Deref(ListCalls[i].Prefix) # <<>>
         /\ Deref(ListCalls[i].Prefix) = normalizePrefix(cl_prefix) \o <<"/">>

\* Cleanup(" / ") has listed without a prefix and emptied the bucket
CleanupSlashClearedBucket ==
  /\ cl_pc = "done"
  /\ cl_ret.err = NoErr
  /\ cl_prefix = <<" ", "/", " ">>
  /\ ListCalls[1].Prefix = Nil
  /\ DOMAIN bucket0 = RemoteKeys
  /\ DOMAIN bucket = {}

\* C8: a failing listing or deletion call is the last call Cleanup makes; it
\* returns the error with the count of the pages whose batch delete
\* succeeded before (the failing page is not counted), and the objects of
\* those pages stay deleted.
CleanupStopsWithPartialCount ==
  LET failed == {i \in DOMAIN trace : ~trace[i].ok}
      deleted == SelectSeq(trace, IsOkDelete)
  IN /\ Cardinality(failed) <= 1
     /\ failed # {} =>
          /\ failed = {Len(trace)}
          /\ cl_pc = "done"
          /\ cl_ret.err # NoErr
          /\ cl_ret.total = SumLen([i \in DOMAIN deleted |-> deleted[i].Objects])
          /\ \A i \in DOMAIN deleted :
                \A k \in SeqRange(deleted[i].Objects) : k \notin DOMAIN bucket
     /\ (cl_pc = "done" /\ cl_ret.err # NoErr) => failed # {}

\* the delete of the second page failed after the first page was deleted
CleanupFailedAfterFirstPage ==
  /\ cl_pc = "done"
  /\ cl_ret.err # NoErr
  /\ cl_ret.total = 2
  /\ Len(DeleteCalls) = 2
  /\ ~trace[Len(trace)].ok
  /\ trace[Len(trace)].op = "DeleteObjects"

(***************************************************************************)
(* Properties of Transport.Upload.                                         *)
(***************************************************************************)
IsHead(e) == e.op = "HeadObject"

IsPut(e) == e.op = "PutObject"

IsOkPut(e) == e.op = "PutObject" /\ e.ok

IsHeadOrOpen(e) == e.op \in {"HeadObject", "Open"}

IsHeadOrPut(e) == e.op \in {"HeadObject", "PutObject"}

HeadCalls == SelectSeq(trace, IsHead)

PutCalls == SelectSeq(trace, IsPut)

OkPuts == SelectSeq(trace, IsOkPut)

\* C1: Upload returns either an error with a nil result list or no error
\* with one result per plan; as soon as fewer plans were put than the list
\* holds, the result list is nil, whatever was put before the failure.
UploadNoPartialResult ==
  up_pc = "done" =>
    /\ up_ret.err # NoErr => up_ret.results = Nil
    /\ Len(OkPuts) < Len(up_plans) => up_ret.err # NoErr /\ up_ret.results = Nil
    /\ Len(up_plans) = 0 => up_ret.err # NoErr /\ up_ret.results = Nil
    /\ up_ret.err = NoErr =>
          /\ up_ret.results # Nil
          /\ Len(Deref(up_ret.results)) = Len(up_plans)
          /\ Len(OkPuts) = Len(up_plans)
          /\ \A i \in DOMAIN up_plans :
                /\ Deref(up_ret.results)[i].Key = up_plans[i].Key
                /\ Deref(up_ret.results)[i].Source = up_plans[i].Source
                /\ OkPuts[i].Key = up_plans[i].Key

\* the third plan failed after the first two were put
UploadFailedAfterTwoPuts ==
  /\ up_pc = "done"
  /\ Len(up_plans) = 3
  /\ Len(OkPuts) = 2
  /\ up_ret.err # NoErr
  /\ up_ret.results = Nil

\* C2: with overwrite disabled, a put for key k directly follows, among the
\* probes and puts, a probe for k that the backend answered with a
\* not-found condition; a probe that found the object ends Upload with the
\* already-exists error naming k, a probe that failed otherwise ends it with
\* an error wrapping the cause, and no call follows either of them.
UploadPutOnlyAfterNotFound ==
  ~overwrite =>
    LET hp == SelectSeq(trace, IsHeadOrPut)
    IN /\ \A j \in DOMAIN hp :
            hp[j].op = "PutObject" =>
              /\ j > 1
              /\ hp[j - 1].op = "HeadObject"
              /\ hp[j - 1].Key = hp[j].Key
              /\ hp[j - 1].err # Nil
              /\ Deref(hp[j - 1].err) \in AbsentAnswers
       /\ \A j \in DOMAIN trace :
            (trace[j].op = "HeadObject" /\ trace[j].err = Nil) =>
              /\ j = Len(trace)
              /\ up_pc = "done"
              /\ up_ret.err = [kind |-> "ObjectExists", key |-> trace[j].Key]
       /\ \A j \in DOMAIN trace :
            (/\ trace[j].op = "HeadObject"
             /\ trace[j].err # Nil
             /\ Deref(trace[j].err) \notin AbsentAnswers) =>
              /\ j = Len(trace)
              /\ up_pc = "done"
              /\ up_ret.err.kind = "IOError"
              /\ up_ret.err.key = trace[j].Key
              /\ up_ret.err.cause = Deref(trace[j].err)

\* with overwrite disabled, a plan was put after a "404" answer and the next
\* probe was refused by the backend
UploadProbeRefusedAfterPut ==
  /\ ~overwrite
  /\ up_pc = "done"
  /\ Len(OkPuts) = 1
  /\ Len(HeadCalls) = 2
  /\ HeadCalls[1].err = Ptr(ErrAPI(Code404))
  /\ HeadCalls[2].err = Ptr(ErrAPI(CodeForbidden))
  /\ up_ret.err.kind = "IOError"

\* C3 as stated: when Upload returns the already-exists error, it has issued
\* no put for any plan of the batch.
UploadExistsMeansNoPutAtAll ==
  (up_pc = "done" /\ up_ret.err.kind = "ObjectExists") => PutCalls = <<>>

\* C3 (amended): when Upload returns the already-exists error for the key of
\* plan i, it has issued no put for plan i or for any later plan; the plans
\* before i have each been put, in order.
UploadExistsMeansNoPutFromThere ==
  (up_pc = "done" /\ up_ret.err.kind = "ObjectExists") =>
    LET n == Len(PutCalls)
    IN /\ ~overwrite
       /\ n < Len(up_plans)
       /\ up_plans[n + 1].Key = up_ret.err.key
       /\ up_ret.err.key \in DOMAIN bucket
       /\ \A j \in 1..n : PutCalls[j].ok /\ PutCalls[j].Key = up_plans[j].Key

\* the key of the second plan was already there, and the first plan was put
UploadExistsAfterPut ==
  /\ up_pc = "done"
  /\ up_ret.err.kind = "ObjectExists"
  /\ Len(up_plans) >= 2
  /\ up_plans[2].Key = up_ret.err.key
  /\ up_plans[2].Key \in DOMAIN bucket0
  /\ up_plans[1].Key \notin DOMAIN bucket0
  /\ Len(PutCalls) = 1

\* C4: with overwrite enabled no probe is ever issued; with overwrite
\* disabled the probes and opens alternate, starting with a probe: one probe
\* for each plan that is reached, on the key of that plan, before the file of
\* that plan is opened.
UploadProbesIffNoOverwrite ==
  LET ho == SelectSeq(trace, IsHeadOrOpen)
      reached == IF up_pc \in {"start", "idle"} THEN 0
                 ELSE IF up_pc = "guard" THEN up_i - 1
                 ELSE IF up_pc = "done" /\ up_ret.err = NoErr THEN Len(up_plans)
                 ELSE up_i
  IN IF overwrite
     THEN HeadCalls = <<>>
     ELSE /\ Len(HeadCalls) = reached
          /\ \A m \in DOMAIN HeadCalls : HeadCalls[m].Key = up_plans[m].Key
          /\ \A j \in DOMAIN ho :
                IF j % 2 = 1
                THEN ho[j].op = "HeadObject"
                ELSE ho[j].op = "Open" /\ ho[j].Source = up_plans[j \div 2].Source

\* with overwrite disabled, three plans were probed, opened and put
UploadThreeProbes ==
  /\ ~overwrite
  /\ up_pc = "done"
  /\ up_ret.err = NoErr
  /\ Len(HeadCalls) = 3
  /\ Len(OkPuts) = 3

(***************************************************************************)
(* Properties of BuildPlans.                                               *)
(***************************************************************************)
\* places in the traversal of a file whose key an earlier file already got
DuplicateVisits ==
  {j \in DOMAIN bp_visited :
     \E i \in 1..(j - 1) : bp_visited[i].Key = bp_visited[j].Key}

\* C9: the moment BuildPlans comes to a file whose key an earlier file of
\* the same call already got (same input path or not), it stops with the
\* duplicate-key error naming that key and returns no plans; up to there
\* every file has its own plan under its own key, none dropped or renamed.
BuildPlansRejectsDuplicateKeys ==
  LET last == Len(bp_visited)
  IN /\ DuplicateVisits # {} =>
          /\ DuplicateVisits = {last}
          /\ bp_pc = "done"
          /\ bp_ret.err = DuplicateKey(bp_visited[last].Key)
          /\ bp_ret.plans = Nil
     /\ bp_ret.err.kind = "DuplicateKey" => DuplicateVisits # {}
     /\ Len(bp_plans) = (IF DuplicateVisits = {} THEN last ELSE last - 1)
     /\ \A i \in DOMAIN bp_plans :
          /\ bp_plans[i].Key = bp_visited[i].Key
          /\ bp_plans[i].Source = bp_visited[i].Source

\* the file a and the directory e (holding a file a) were given under prefix p
BuildPlansFileAndDirectoryCollide ==
  /\ bp_pc = "done"
  /\ bp_paths = << <<"a">>, <<"e">> >>
  /\ bp_prefix = <<"p">>
  /\ bp_ret.err = DuplicateKey(<<"p", "/", "a">>)
  /\ bp_ret.plans = Nil
  /\ Len(bp_plans) = 1

\* order of a depth-first walk in lexical order: paths compared character
\* by character, the separator before every other character
WalkLess(s, t) ==
  LET code(c) == IF c = Separator THEN 0 ELSE CharCode(c)
      differ == {i \in 1..Min(Len(s), Len(t)) : s[i] # t[i]}
  IN IF differ = {} THEN Len(s) < Len(t)
     ELSE LET first == CHOOSE i \in differ : \A j \in differ : i <= j
          IN code(s[first]) < code(t[first])

RECURSIVE SortWalk(_)
SortWalk(S) ==
  IF S = {} THEN <<>>
  ELSE LET m == CHOOSE x \in S : \A y \in S \ {x} : WalkLess(x, y)
       IN <<m>> \o SortWalk(S \ {m})

\* the regular files an input path stands for
FilesAt(given) ==
  LET node == Clean(given)
  IN IF ~LocalFS[node].dir THEN <<given>>
     ELSE SortWalk({q \in DOMAIN LocalFS :
                      HasPrefix(q, node \o <<Separator>>) /\ ~LocalFS[q].dir})

ExpectedFiles(paths) == Concat([i \in DOMAIN paths |-> FilesAt(TrimSpace(paths[i]))])

\* C10: when BuildPlans succeeds, the plans are the regular files of the
\* input paths, one plan each, in input order then traversal order, none for
\* a directory, and no two plans have the same key.
BuildPlansOnePlanPerFile ==
  (bp_pc = "done" /\ bp_ret.err = NoErr) =>
    LET plans == Deref(bp_ret.plans)
        expected == ExpectedFiles(bp_paths)
    IN /\ bp_ret.plans # Nil
       /\ Len(plans) = Len(expected)
       /\ \A i \in DOMAIN plans :
            /\ plans[i].Source = expected[i]
            /\ ~LocalFS[Clean(plans[i].Source)].dir
       /\ \A i \in DOMAIN plans : \A j \in DOMAIN plans :
            i # j => plans[i].Key # plans[j].Key

\* the file b and the directory d (two files, one nested) gave three plans
BuildPlansFileAndTree ==
  /\ bp_pc = "done"
  /\ bp_ret.err = NoErr
  /\ bp_paths = << <<"b">>, <<"d">> >>
  /\ bp_prefix = <<"p">>
  /\ Len(Deref(bp_ret.plans)) = 3
  /\ Deref(bp_ret.plans)[3].Key = <<"p", "/", "s", "/", "b">>

\* the walk callback comes to a regular file in this step
WalkVisit == bp_pc = "walk" /\ Len(bp_visited') = Len(bp_visited) + 1

\* the file the step came to, with the key it got
VisitedFile == bp_visited'[Len(bp_visited')]

\* what follows the root and one separator in the path of a walked file
BelowRoot(source) == SubSeq(source, Len(bp_root) + 2, Len(source))

\* C11 as stated: the key of a file found under a directory input is the
\* normalized prefix, "/" and the slash-joined path of the file below the
\* directory's root, or that path alone when the prefix is empty, the path
\* taken as it is.
BuildPlansDirectoryKeyUntrimmed ==
  [][WalkVisit =>
       LET rel == ToSlash(BelowRoot(VisitedFile.Source))
       IN /\ VisitedFile.Source = bp_root \o <<Separator>> \o BelowRoot(VisitedFile.Source)
          /\ VisitedFile.Key = IF basePrefix = <<>> THEN rel
                               ELSE basePrefix \o <<"/">> \o rel]_vars

\* C11: the key of a file found under a directory input is built from the
\* normalized prefix and the slash-joined path of the file below the
\* directory's own root, that path first trimmed of surrounding whitespace
\* and "/": prefix, "/" and the trimmed path when both are non-empty, the
\* trimmed path alone when the prefix is empty, the prefix alone when the
\* trimmed path is empty; the directory's own name is not part of the key.
BuildPlansDirectoryKey ==
  [][WalkVisit =>
       LET rel == ToSlash(BelowRoot(VisitedFile.Source))
           trimmed == Trim(TrimSpace(rel), {"/"})
       IN /\ VisitedFile.Source = bp_root \o <<Separator>> \o BelowRoot(VisitedFile.Source)
          /\ VisitedFile.Key = IF trimmed = <<>> THEN basePrefix
                               ELSE IF basePrefix = <<>> THEN trimmed
                               ELSE basePrefix \o <<"/">> \o trimmed]_vars

\* the directory d, given as "d/" under prefix "/p/", gave the keys p/a and p/s/b
BuildPlansNestedFileUnderRoot ==
  /\ bp_pc = "done"
  /\ bp_ret.err = NoErr
  /\ bp_paths = << <<"d", "/">> >>
  /\ bp_prefix = <<"/", "p", "/">>
  /\ Len(Deref(bp_ret.plans)) = 2
  /\ Deref(bp_ret.plans)[1].Key = <<"p", "/", "a">>
  /\ Deref(bp_ret.plans)[2].Key = <<"p", "/", "s", "/", "b">>


\* C12: the path handed to joinKey is never empty after trimming for a file
\* found by directory traversal, and no plan BuildPlans returns has the bare
\* prefix or the empty string as its key.
BuildPlansNoBarePrefixKey ==
  /\ \A i \in DOMAIN bp_plans :
       /\ bp_plans[i].Key # basePrefix
       /\ bp_plans[i].Key # <<>>
  /\ bp_pc = "walk" /\ bp_walk # <<>> /\ ~LocalFS[Head(bp_walk)].dir =>
       Trim(TrimSpace(ToSlash(BelowRoot(Head(bp_walk)))), {"/"}) # <<>>


\* input paths that are blank after trimming
BlankEntries == {i \in DOMAIN bp_paths : TrimSpace(bp_paths[i]) = <<>>}

\* input paths that os.Stat refuses
StatFailures ==
  {i \in DOMAIN bp_paths : TrimSpace(bp_paths[i]) # <<>> /\ ~StatOK(TrimSpace(bp_paths[i]))}

\* C13: BuildPlans fails atomically: with an empty path list, with an entry
\* (at any position) that is blank after trimming, with a path that cannot
\* be stat'ed, or with an error of a directory traversal, it returns an error
\* and no plans at all, whatever earlier input paths had already produced.
BuildPlansFailsAtomically ==
  bp_pc = "done" =>
    /\ Len(bp_paths) = 0 \/ BlankEntries # {} \/ StatFailures # {} => bp_ret.err # NoErr
    /\ Len(bp_paths) = 0 => bp_ret.err = [kind |-> "InvalidInput", what |-> "paths"]
    /\ bp_ret.err # NoErr /\ bp_i \in BlankEntries =>
         bp_ret.err = [kind |-> "InvalidInput", what |-> "entry"]
    /\ bp_ret.err # NoErr /\ bp_i \in StatFailures =>
         bp_ret.err.kind = "IOError" /\ bp_ret.err.op = "stat"
    /\ bp_ret.err # NoErr => bp_ret.plans = Nil
    /\ bp_ret.err = NoErr => bp_ret.plans = Ptr(bp_plans)

\* the file b gave a plan, then the walk of the directory d failed after
\* its first file: the call returned the traversal error and no plans
BuildPlansFailedAfterPlans ==
  /\ bp_pc = "done"
  /\ bp_paths = << <<"b">>, <<"d">> >>
  /\ bp_ret.err.kind = "IOError"
  /\ bp_ret.err.op = "traverse"
  /\ Len(bp_plans) = 2
  /\ bp_ret.plans = Nil


(***************************************************************************)
(* Order of the work of Transport.Upload.                                  *)
(***************************************************************************)
\* the plan a call of the trace belongs to: a file is closed once per plan
PlanOf(j) == 1 + Cardinality({k \in 1..(j - 1) : trace[k].op = "Close"})

\* the place of a call among the steps of one plan
StepRank(op) ==
  CASE op = "HeadObject" -> 1
    [] op = "Open" -> 2
    [] op = "Seek" -> 3
    [] op = "PutObject" -> 4
    [] op = "Close" -> 5

\* the last plan before plan n that has the key of plan i
LastWithKey(i, n) ==
  CHOOSE k \in 1..(n - 1) :
    /\ up_plans[k].Key = up_plans[i].Key
    /\ \A m \in 1..(n - 1) : up_plans[m].Key = up_plans[i].Key => m <= k

\* C17: Upload works through the plans in the order given, one at a time:
\* every call belongs to the plan of the current iteration, the calls of a
\* plan come in the order guard, open, rewind, put, close, and all of them
\* before the first call of the next plan; when Upload fails at plan i,
\* every plan before i has been put successfully and is in the bucket, and
\* no probe and no put was made for a plan after i.
UploadOnePlanAtATime ==
  /\ \A j \in DOMAIN trace :
       LET e == trace[j]
           i == PlanOf(j)
       IN /\ i \in DOMAIN up_plans
          /\ i <= up_i
          /\ e.op = "HeadObject" => e.Key = up_plans[i].Key
          /\ e.op \in {"Open", "Seek", "Close"} => e.Source = up_plans[i].Source
          /\ e.op = "PutObject" =>
               e.Key = up_plans[i].Key /\ e.Source = up_plans[i].Source
          /\ j > 1 /\ PlanOf(j - 1) = i => StepRank(trace[j - 1].op) < StepRank(e.op)
          /\ j > 1 /\ PlanOf(j - 1) < i => IsOkPut(trace[j - 2])
  /\ \A i \in DOMAIN up_plans :
       i < up_i => \E j \in DOMAIN trace : PlanOf(j) = i /\ IsOkPut(trace[j])
  /\ up_pc = "done" /\ up_ret.err # NoErr /\ up_plans # <<>> =>
       /\ up_i \in DOMAIN up_plans
       /\ Len(OkPuts) = up_i - 1
       /\ Len(HeadCalls) <= up_i
       /\ Len(PutCalls) <= up_i
       /\ \A i \in 1..(up_i - 1) :
            /\ up_plans[i].Key \in DOMAIN bucket
            /\ bucket[up_plans[i].Key] = LocalFS[up_plans[LastWithKey(i, up_i)].Source].body

\* with overwrite disabled, the probe of the third plan found its object
\* after the first two plans were put
UploadFailedAtThirdProbe ==
  /\ up_pc = "done"
  /\ ~overwrite
  /\ up_i = 3
  /\ up_ret.err.kind = "ObjectExists"
  /\ Len(OkPuts) = 2
  /\ Len(HeadCalls) = 3


\* a successful os.Open of the trace
IsOkOpen(e) == e.op = "Open" /\ e.ok

IsClose(e) == e.op = "Close"

\* C18: during Upload at most one local file is open at any time, the file
\* of a plan is closed before the next plan starts, and when Upload returns
\* (success, rewind failure, put failure or any other exit) no file it
\* opened is still open.
UploadHoldsOneFile ==
  /\ Cardinality(up_handles) <= 1
  /\ Cardinality(up_handles) = Len(SelectSeq(trace, IsOkOpen)) - Len(SelectSeq(trace, IsClose))
  /\ up_handles # {} => up_handles = {up_file} /\ up_pc \in {"detect", "put"}
  /\ up_pc \in {"guard", "open", "done"} => up_handles = {}

\* the rewind of the second plan's file failed; its file and the first
\* plan's were opened and both are closed
UploadRewindFailedOnSecondFile ==
  /\ up_pc = "done"
  /\ up_i = 2
  /\ up_ret.err.kind = "IOError"
  /\ up_ret.err.op = "rewind"
  /\ Len(SelectSeq(trace, IsOkOpen)) = 2
  /\ up_handles = {}


(***************************************************************************)
(* Properties of the configuration.                                        *)
(***************************************************************************)
\* the bool a value of the settings stands for, read off the value itself
MeantBool(raw) ==
  CASE raw = RawBool(TRUE) -> TRUE
    [] raw = RawBool(FALSE) -> FALSE
    [] raw = RawString(<<"f", "a", "l", "s", "e">>) -> FALSE
    [] raw = RawInt(1) -> TRUE

\* C16: the defaults are overwrite = true and cleanup = false: a nil
\* settings map, or one that does not set the key, resolves to Overwrite
\* true and Cleanup false, and a value the settings give for a key is the
\* value in the resolved Config.
ConfigDefaultsAndExplicitValues ==
  cf_pc = "done" =>
    /\ cf_values = Nil =>
         /\ cf_ret.err = NoErr
         /\ Deref(cf_ret.cfg).Overwrite = TRUE
         /\ Deref(cf_ret.cfg).Cleanup = FALSE
    /\ cf_values # Nil /\ cf_ret.err = NoErr =>
         LET values == Deref(cf_values)
             cfg == Deref(cf_ret.cfg)
         IN /\ cfg.Overwrite = IF values.overwrite = Nil THEN TRUE
                               ELSE MeantBool(Deref(values.overwrite))
            /\ cfg.Cleanup = IF values.cleanup = Nil THEN FALSE
                             ELSE MeantBool(Deref(values.cleanup))
    /\ cf_ret.err = NoErr <=> cf_ret.cfg # Nil

\* settings with cleanup: true and overwrite unset resolved to a Config
\* with cleanup on and overwrite on
ConfigCleanupSetOverwriteDefault ==
  /\ cf_pc = "done"
  /\ cf_values # Nil
  /\ Deref(cf_values).cleanup = Ptr(RawBool(TRUE))
  /\ Deref(cf_values).overwrite = Nil
  /\ cf_ret.err = NoErr
  /\ Deref(cf_ret.cfg).Cleanup
  /\ Deref(cf_ret.cfg).Overwrite


(***************************************************************************)
(* Properties of Plugin.handleUpload.                                      *)
(***************************************************************************)
\* calls of the cleanup, and calls of the transfer
IsCleanupCall(e) == e.op \in {"ListObjectsV2", "DeleteObjects"}

IsTransferCall(e) == e.op \in {"HeadObject", "Open", "Seek", "PutObject", "Close"}

\* keys that successful batch deletes of this run named
CleanedKeys ==
  UNION {SeqRange(trace[i].Objects) : i \in {j \in DOMAIN trace : IsOkDelete(trace[j])}}

\* keys this run has put
PutKeys == {OkPuts[i].Key : i \in DOMAIN OkPuts}

\* C19: handleUpload runs planning, then the cleanup if it is enabled, then
\* the transfer, each gated on the one before: when BuildPlans fails no
\* call is made and the bucket is as it was; Cleanup is called only when
\* cleanup is enabled and the planning succeeded; when Cleanup fails no
\* probe and no put is made; every call of the cleanup precedes every call
\* of the transfer; and when the transfer fails after a cleanup that
\* succeeded, the objects the cleanup deleted are still gone (but for those
\* the transfer had put again).
HandleUploadStepsGated ==
  /\ hu_pc = "plan" => cl_pc = "idle" /\ up_pc = "idle" /\ trace = <<>> /\ bucket = bucket0
  /\ cl_pc # "idle" => bp_pc = "done" /\ bp_ret.err = NoErr /\ hu_cleanup
  /\ ~hu_cleanup => \A i \in DOMAIN trace : ~IsCleanupCall(trace[i])
  /\ up_pc # "idle" =>
       /\ bp_pc = "done" /\ bp_ret.err = NoErr
       /\ up_plans = Deref(bp_ret.plans)
       /\ IF hu_cleanup THEN cl_pc = "done" /\ cl_ret.err = NoErr ELSE cl_pc = "idle"
  /\ \A i \in DOMAIN trace : \A j \in DOMAIN trace :
       IsTransferCall(trace[i]) /\ IsCleanupCall(trace[j]) => j < i
  /\ hu_pc = "done" /\ bp_ret.err # NoErr =>
       trace = <<>> /\ bucket = bucket0 /\ hu_ret = ExecutionFailure(bp_ret.err)
  /\ hu_pc = "done" /\ cl_ret.err # NoErr =>
       /\ \A i \in DOMAIN trace : ~IsTransferCall(trace[i])
       /\ up_pc = "idle"
       /\ hu_ret.ExitCode = 1
  /\ hu_pc = "done" /\ hu_cleanup /\ cl_ret.err = NoErr /\ up_ret.err # NoErr =>
       /\ hu_ret = ExecutionFailure(up_ret.err)
       /\ \A k \in CleanedKeys : k \in DOMAIN bucket => k \in PutKeys
       /\ \A k \in DOMAIN bucket0 \ DOMAIN bucket : k \in CleanedKeys
  /\ hu_pc = "done" /\ hu_ret.ExitCode = 0 =>
       bp_ret.err = NoErr /\ cl_ret.err = NoErr /\ up_ret.err = NoErr /\ up_pc = "done"

\* the cleanup deleted two objects, then the transfer failed at its first
\* plan: the two objects are gone and nothing was put
HandleUploadFailedAfterCleanup ==
  /\ hu_pc = "done"
  /\ hu_run = 1
  /\ hu_cleanup
  /\ cl_ret = [total |-> 2, err |-> NoErr]
  /\ hu_ret.ExitCode = 1
  /\ up_ret.err # NoErr
  /\ PutKeys = {}
  /\ Cardinality(DOMAIN bucket0 \ DOMAIN bucket) = 2


\* C14: when the same command is run twice with overwrite enabled, nothing
\* else writes to the bucket and both runs succeed, the bucket after the
\* second run holds the same keys with the same contents as after the
\* first, with the cleanup enabled or not.
HandleUploadIdempotentWithOverwrite ==
  hu_pc = "done" /\ hu_run = 2 /\ hu_overwrite /\ hu_ret.ExitCode = 0 =>
    /\ Deref(hu_first).ret.ExitCode = 0
    /\ bucket = Deref(hu_first).bucket
    /\ \A i \in DOMAIN up_plans :
         bucket[up_plans[i].Key] = LocalFS[Clean(up_plans[i].Source)].body

\* the second run, with cleanup and overwrite enabled, deleted two objects
\* the first run had left and went through
HandleUploadSecondRunCleanedAndPut ==
  /\ hu_pc = "done"
  /\ hu_run = 2
  /\ hu_overwrite
  /\ hu_cleanup
  /\ hu_ret.ExitCode = 0
  /\ cl_ret = [total |-> 2, err |-> NoErr]
  /\ Len(OkPuts) = 2


\* a call of this run failed for a reason of its own: a traversal, a
\* listing, a delete, a probe, a file or a put
RunHitIOError ==
  \/ bp_ret.err.kind = "IOError"
  \/ cl_ret.err.kind = "IOError"
  \/ up_ret.err.kind = "IOError"

\* the scope Cleanup(prefix) lists and deletes holds the key
InCleanupScope(prefix, key) ==
  normalizePrefix(prefix) = <<>> \/ HasPrefix(key, normalizePrefix(prefix) \o <<"/">>)

\* C15 as stated: with overwrite disabled, the second run of the command
\* after a first run that succeeded ends, unless a call fails for a reason
\* of its own, with the already-exists error for the first planned key,
\* with the cleanup enabled or not.
HandleUploadSecondRunAlwaysRefused ==
  hu_pc = "done" /\ hu_run = 2 /\ ~hu_overwrite /\ ~RunHitIOError =>
    /\ hu_ret.ExitCode = 1
    /\ hu_ret.Error = [kind |-> "ObjectExists", key |-> up_plans[1].Key]

\* C15: with overwrite disabled and the cleanup disabled, the second run of
\* the command after a first run that succeeded fails: when its planning
\* succeeds it makes one probe, for the key of the first plan, puts nothing,
\* leaves the bucket as it was, and unless the probe itself fails it ends
\* with the already-exists error for that key.  With the cleanup enabled
\* the second run first deletes the objects in the scope of the prefix: it
\* can end with the already-exists error only for a planned key outside
\* that scope, and it succeeds when no call fails and every planned key
\* lies in the scope.
HandleUploadSecondRunRefusedWithoutCleanup ==
  hu_pc = "done" /\ hu_run = 2 /\ ~hu_overwrite =>
    /\ ~hu_cleanup =>
         /\ hu_ret.ExitCode = 1
         /\ bucket = bucket0
         /\ PutCalls = <<>>
         /\ bp_ret.err = NoErr =>
              /\ Len(HeadCalls) = 1
              /\ HeadCalls[1].Key = up_plans[1].Key
              /\ ~RunHitIOError =>
                   hu_ret.Error = [kind |-> "ObjectExists", key |-> up_plans[1].Key]
    /\ hu_cleanup /\ hu_ret.Error.kind = "ObjectExists" =>
         ~InCleanupScope(hu_context, hu_ret.Error.key)
    /\ hu_cleanup /\ ~RunHitIOError /\ bp_ret.err = NoErr
         /\ (\A i \in DOMAIN bp_plans : InCleanupScope(hu_context, bp_plans[i].Key)) =>
         hu_ret.ExitCode = 0

\* with overwrite and cleanup disabled, the second run stopped at the probe
\* of its first plan's key, which the first run had put
HandleUploadSecondRunRefused ==
  /\ hu_pc = "done"
  /\ hu_run = 2
  /\ ~hu_overwrite
  /\ ~hu_cleanup
  /\ Len(up_plans) = 2
  /\ hu_ret = ExecutionFailure([kind |-> "ObjectExists", key |-> up_plans[1].Key])
  /\ Len(HeadCalls) = 1
  /\ PutCalls = <<>>


\* C20: planning and cleanup agree on the prefix: every key BuildPlans
\* assigns under the context prefix lies in the scope Cleanup lists and
\* deletes for that prefix, and so, with the cleanup enabled and overwrite
\* disabled, the transfer that follows a successful cleanup never ends with
\* the already-exists error.
HandleUploadPlansInsideCleanupScope ==
  /\ \A i \in DOMAIN bp_plans : InCleanupScope(hu_context, bp_plans[i].Key)
  /\ hu_cleanup /\ ~hu_overwrite /\ cl_pc = "done" /\ cl_ret.err = NoErr =>
       up_ret.err.kind # "ObjectExists"


(***************************************************************************)
(* Pagination of Transport.Cleanup.                                        *)
(***************************************************************************)
\* a listing that succeeded and carried no continuation cursor
IsLastPage(e) == e.op = "ListObjectsV2" /\ e.ok /\ e.NextContinuationToken = Nil

\* the calls of the pagination loop are in order: the first listing has no
\* cursor and each later one passes the cursor the listing before it
\* returned; no listing follows a failed one or one without a cursor; a
\* batch delete directly follows a non-empty page and names its keys, so
\* none is made for an empty page, after which the next call is a listing;
\* and Cleanup has returned once the page without a cursor is dealt with
CleanupPaginationInOrder ==
  /\ ListCalls # <<>> => ListCalls[1].ContinuationToken = Nil
  /\ \A i \in 2..Len(ListCalls) :
       /\ ListCalls[i - 1].ok
       /\ ListCalls[i - 1].NextContinuationToken # Nil
       /\ ListCalls[i].ContinuationToken = ListCalls[i - 1].NextContinuationToken
  /\ cl_pc = "list" =>
       cl_token = IF ListCalls = <<>> THEN Nil
                  ELSE ListCalls[Len(ListCalls)].NextContinuationToken
  /\ \A j \in DOMAIN trace :
       /\ IsDelete(trace[j]) =>
            /\ j > 1
            /\ IsNonEmptyPage(trace[j - 1])
            /\ trace[j].Objects = trace[j - 1].Contents
       /\ j < Len(trace) /\ IsNonEmptyPage(trace[j]) => IsDelete(trace[j + 1])
       /\ j < Len(trace) /\ IsList(trace[j]) /\ trace[j].Contents = <<>> =>
            IsList(trace[j + 1]) /\ trace[j].ok /\ trace[j].NextContinuationToken # Nil
       /\ j = Len(trace) /\ IsLastPage(trace[j]) /\ trace[j].Contents = <<>> =>
            cl_pc = "done" /\ cl_ret = [total |-> cl_total, err |-> NoErr]
       /\ j = Len(trace) /\ IsOkDelete(trace[j]) /\ IsLastPage(trace[j - 1]) =>
            cl_pc = "done" /\ cl_ret = [total |-> cl_total, err |-> NoErr]
       /\ j = Len(trace) /\ ~trace[j].ok => cl_pc = "done" /\ cl_ret.err # NoErr
  /\ cl_pc = "done" =>
       /\ trace # <<>>
       /\ \/ ~trace[Len(trace)].ok
          \/ IsLastPage(trace[Len(trace)]) /\ trace[Len(trace)].Contents = <<>>
          \/ IsOkDelete(trace[Len(trace)]) /\ IsLastPage(trace[Len(trace) - 1])

\* C21: the pagination loop of Cleanup makes progress and terminates: one
\* listing per page, each passing the cursor of the page before; no batch
\* delete for a page with no objects, which only advances the cursor; the
\* return as soon as a page carries no cursor; and, on a backend that
\* eventually answers with a page without a cursor, Cleanup returns.
CleanupPaginatesAndTerminates == []CleanupPaginationInOrder /\ <>(cl_pc = "done")

\* Cleanup returned after an empty page with a cursor, which it followed
\* with another listing and no delete, and two pages of objects
CleanupDoneAfterEmptyPage ==
  /\ cl_pc = "done"
  /\ cl_ret = [total |-> 3, err |-> NoErr]
  /\ EmptyPagesSoFar = 1
  /\ Len(ListCalls) = 3
  /\ Len(DeleteCalls) = 2
  /\ trace[1].Contents = <<>>


=============================================================================
